---- MODULE Spec2Model ----
(***************************************************************************)
(* The XML-RPC wikitext service of src/server.py: the `parse` procedure    *)
(* (parser), the tree serializer (convert_wikicode, convert_node) and the  *)
(* parts of mwparserfromhell the serializer calls: str() of nodes and      *)
(* trees, truthiness of a tree, and the recursive filter_* queries.        *)
(*                                                                         *)
(* Python values are tagged records (field py names the Python type), so   *)
(* that None, a string, a list and a dict are different values that can be *)
(* compared.  A dict keeps its keys in insertion order, as Python does.    *)
(* An exception in flight is the value Raise(exc, arg): every construct    *)
(* that evaluates sub-expressions hands on the first one raised.           *)
(***************************************************************************)
EXTENDS Integers, Sequences, FiniteSets, TLC

VARIABLES pc, wikitext, output, response

vars == <<pc, wikitext, output, response>>

-----------------------------------------------------------------------------
(* Bounds of the model *)

\* the largest number of syntax nodes in a parsed document (names, urls and
\* link targets, which are fixed one-Text trees, are not counted)
MaxNodes == 2

\* the largest wall-clock duration, in ticks, between the two time.time() reads
MaxElapsed == 1

-----------------------------------------------------------------------------
(* Python values *)

None == [py |-> "None"]

PyStr(s) == [py |-> "str", s |-> s]

PyBool(b) == [py |-> "bool", b |-> b]

PyInt(i) == [py |-> "int", i |-> i]

PyFloat(x) == [py |-> "float", x |-> x]

PyList(elems) == [py |-> "list", elems |-> elems]

\* items: a sequence of <<key, value>> in insertion order
PyDict(items) == [py |-> "dict", items |-> items]

Raise(exc, arg) == [py |-> "raise", exc |-> exc, arg |-> arg]

IsRaise(v) == v.py = "raise"

Keys(d) == {d.items[i][1] : i \in 1..Len(d.items)}

Get(d, k) == d.items[CHOOSE i \in 1..Len(d.items) : d.items[i][1] = k][2]

\* the first exception raised while the values of seq are evaluated in order
FirstRaise(seq) == seq[CHOOSE i \in 1..Len(seq) : IsRaise(seq[i]) /\ \A j \in 1..(i-1) : ~IsRaise(seq[j])]

\* a list display / comprehension whose element expressions evaluate to elems
ListOf(elems) ==
    IF \E i \in 1..Len(elems) : IsRaise(elems[i]) THEN FirstRaise(elems) ELSE PyList(elems)

\* a dict display { k1: e1, k2: e2, ... }: the values are evaluated in order
DictOf(items) ==
    LET vals == [i \in 1..Len(items) |-> items[i][2]]
    IN  IF \E i \in 1..Len(vals) : IsRaise(vals[i]) THEN FirstRaise(vals) ELSE PyDict(items)

-----------------------------------------------------------------------------
(* The syntax tree mwparserfromhell hands to the serializer *)

\* a tree or sub-tree: an ordered sequence of nodes
Wikicode(nodes) == [nodes |-> nodes]

Text(value) == [cls |-> "Text", value |-> value]

Comment(contents) == [cls |-> "Comment", contents |-> contents]

HTMLEntity(value) ==
    [cls |-> "HTMLEntity", value |-> value, named |-> TRUE, hexadecimal |-> FALSE, hex_char |-> "x"]

\* a node of a class outside the eleven the serializer matches
Unknown(cls, raw) == [cls |-> cls, raw |-> raw]

Argument(name, default) == [cls |-> "Argument", name |-> name, default |-> default]

ExternalLink(url, title, brackets) ==
    [cls |-> "ExternalLink", url |-> url, title |-> title, brackets |-> brackets]

Heading(title, level) == [cls |-> "Heading", title |-> title, level |-> level]

Attribute(name, value, quotes) ==
    [cls |-> "Attribute", name |-> name, value |-> value, quotes |-> quotes,
     pad_first |-> " ", pad_before_eq |-> "", pad_after_eq |-> ""]

\* an HTML-style tag (wiki_markup, closing_wiki_markup, wiki_style_separator unset)
Tag(tag, attributes, contents, self_closing) ==
    [cls |-> "Tag", tag |-> tag, attributes |-> attributes, contents |-> contents,
     closing_tag |-> tag, self_closing |-> self_closing, implicit |-> FALSE,
     invalid |-> FALSE, padding |-> "", wiki_markup |-> None,
     closing_wiki_markup |-> None, wiki_style_separator |-> None]

Parameter(name, value, showkey) ==
    [cls |-> "Parameter", name |-> name, value |-> value, showkey |-> showkey]

Template(name, params) == [cls |-> "Template", name |-> name, params |-> params]

Wikilink(title, text) == [cls |-> "Wikilink", title |-> title, text |-> text]

-----------------------------------------------------------------------------
(* str() of nodes and trees, as the parser library renders them *)

RECURSIVE StrNode(_), StrWikicode(_), StrJoin(_, _), StrParams(_, _)

\* "|" + "|".join(str(p) for p in params[from..]), or "" when there are none
StrParams(params, from) ==
    IF from > Len(params) THEN "" ELSE "|" \o StrNode(params[from]) \o StrParams(params, from + 1)

\* "".join(str(n) for n in nodes[from..])
StrJoin(nodes, from) ==
    IF from > Len(nodes) THEN "" ELSE StrNode(nodes[from]) \o StrJoin(nodes, from + 1)

\* str(wikicode): the concatenation of str(node) over its nodes, in order
StrWikicode(code) == StrJoin(code.nodes, 1)

RECURSIVE Equals(_)

\* "=" * level
Equals(level) == IF level = 0 THEN "" ELSE "=" \o Equals(level - 1)

\* str(node)
StrNode(node) ==
    CASE node.cls = "Text" -> node.value
      [] node.cls = "Comment" -> "<!--" \o node.contents \o "-->"
      [] node.cls = "HTMLEntity" -> "&" \o node.value \o ";"
      [] node.cls = "Argument" ->
            "{{{" \o StrWikicode(node.name)
                  \o (IF node.default # None THEN "|" \o StrWikicode(node.default) ELSE "")
                  \o "}}}"
      [] node.cls = "ExternalLink" ->
            IF node.brackets
            THEN "[" \o StrWikicode(node.url)
                     \o (IF node.title # None THEN " " \o StrWikicode(node.title) ELSE "")
                     \o "]"
            ELSE StrWikicode(node.url)
      [] node.cls = "Heading" ->
            Equals(node.level) \o StrWikicode(node.title) \o Equals(node.level)
      [] node.cls = "Attribute" ->
            node.pad_first \o StrWikicode(node.name) \o node.pad_before_eq
                \o (IF node.value # None
                    THEN "=" \o node.pad_after_eq
                             \o (IF node.quotes # None
                                 THEN node.quotes.s \o StrWikicode(node.value) \o node.quotes.s
                                 ELSE StrWikicode(node.value))
                    ELSE "")
      [] node.cls = "Tag" ->
            "<" \o StrWikicode(node.tag) \o StrJoin(node.attributes, 1) \o node.padding
                \o (IF node.self_closing
                    THEN "/>"
                    ELSE ">" \o StrWikicode(node.contents)
                             \o "</" \o StrWikicode(node.closing_tag) \o ">")
      [] node.cls = "Parameter" ->
            IF node.showkey
            THEN StrWikicode(node.name) \o "=" \o StrWikicode(node.value)
            ELSE StrWikicode(node.value)
      [] node.cls = "Template" ->
            "{{" \o StrWikicode(node.name)
                 \o StrParams(node.params, 1)
                 \o "}}"
      [] node.cls = "Wikilink" ->
            "[[" \o StrWikicode(node.title)
                 \o (IF node.text # None THEN "|" \o StrWikicode(node.text) ELSE "")
                 \o "]]"
      [] OTHER -> node.raw

\* bool(wikicode): a tree is true when its text is not empty
Truthy(code) == StrWikicode(code) # ""

-----------------------------------------------------------------------------
(* The recursive filter queries of a tree *)

RECURSIVE AttrChildren(_, _)

\* the sub-trees of a tag's attributes: each name, then its value when set
AttrChildren(attrs, from) ==
    IF from > Len(attrs) THEN <<>>
    ELSE <<attrs[from].name>>
            \o (IF attrs[from].value # None THEN <<attrs[from].value>> ELSE <<>>)
            \o AttrChildren(attrs, from + 1)

RECURSIVE ParamChildren(_, _)

\* the sub-trees of a template's parameters: the name when shown, then the value
ParamChildren(params, from) ==
    IF from > Len(params) THEN <<>>
    ELSE (IF params[from].showkey THEN <<params[from].name>> ELSE <<>>)
            \o <<params[from].value>>
            \o ParamChildren(params, from + 1)

\* the sub-trees of a node, in document order
Children(node) ==
    CASE node.cls = "Argument" ->
            <<node.name>> \o (IF node.default # None THEN <<node.default>> ELSE <<>>)
      [] node.cls = "ExternalLink" ->
            <<node.url>> \o (IF node.title # None THEN <<node.title>> ELSE <<>>)
      [] node.cls = "Heading" -> <<node.title>>
      [] node.cls = "Tag" ->
            <<node.tag>> \o AttrChildren(node.attributes, 1)
                \o (IF node.self_closing THEN <<>> ELSE <<node.contents, node.closing_tag>>)
      [] node.cls = "Template" -> <<node.name>> \o ParamChildren(node.params, 1)
      [] node.cls = "Wikilink" ->
            <<node.title>> \o (IF node.text # None THEN <<node.text>> ELSE <<>>)
      [] OTHER -> <<>>

RECURSIVE Descend(_), DescendAll(_, _), DescendTrees(_, _)

\* a node followed by every node below it, in document order
Descend(node) == <<node>> \o DescendTrees(Children(node), 1)

DescendTrees(codes, from) ==
    IF from > Len(codes) THEN <<>>
    ELSE DescendAll(codes[from].nodes, 1) \o DescendTrees(codes, from + 1)

DescendAll(nodes, from) ==
    IF from > Len(nodes) THEN <<>> ELSE Descend(nodes[from]) \o DescendAll(nodes, from + 1)

IsClass(node, cls) == node.cls = cls

\* wikicode.filter(forcetype=cls), recursive by default: every node of the
\* class anywhere in the tree, in document order
Filter(code, cls) ==
    LET Match(n) == IsClass(n, cls) IN SelectSeq(DescendAll(code.nodes, 1), Match)

filter_headings(code) == Filter(code, "Heading")

filter_templates(code) == Filter(code, "Template")

filter_tags(code) == Filter(code, "Tag")

-----------------------------------------------------------------------------
(* The serializer: convert_node and convert_wikicode *)

RECURSIVE convert_node(_), convert_wikicode(_)

\* [convert_node(n) for n in nodes]
ConvertEach(nodes) == ListOf([i \in 1..Len(nodes) |-> convert_node(nodes[i])])

\* str(code) if code else None
StrIfTruthy(code) == IF code # None /\ Truthy(code) THEN PyStr(StrWikicode(code)) ELSE None

case_Attribute(node) ==
    DictOf(<< <<"text", PyStr(StrNode(node))>>,
              <<"type", PyStr("Attribute")>>,
              <<"pad_after_eq", PyStr(node.pad_after_eq)>>,
              <<"pad_before_eq", PyStr(node.pad_before_eq)>>,
              <<"pad_first", PyStr(node.pad_first)>>,
              <<"quotes", IF node.quotes # None THEN node.quotes ELSE None>>,
              <<"value", IF node.value # None THEN convert_wikicode(node.value) ELSE None>> >>)

case_Parameter(node) ==
    DictOf(<< <<"text", PyStr(StrNode(node))>>,
              <<"name", PyStr(StrWikicode(node.name))>>,
              <<"type", PyStr("Parameter")>>,
              <<"showkey", PyBool(node.showkey)>>,
              <<"value", IF node.value # None THEN PyStr(StrWikicode(node.value)) ELSE None>> >>)

case_Argument(node) ==
    DictOf(<< <<"text", PyStr(StrNode(node))>>,
              <<"type", PyStr("Argument")>>,
              <<"name", convert_wikicode(node.name)>>,
              <<"default", IF node.default # None THEN convert_wikicode(node.default) ELSE None>> >>)

\* the Comment case taking the text of the contents for the text of the node
case_Comment_contents(node) ==
    DictOf(<< <<"text", PyStr(node.contents)>>,
              <<"type", PyStr("Comment")>>,
              <<"contents", PyStr(node.contents)>> >>)

case_Comment(node) ==
    DictOf(<< <<"text", PyStr(StrNode(node))>>,
              <<"type", PyStr("Comment")>>,
              <<"contents", PyStr(node.contents)>> >>)

case_ExternalLink(node) ==
    DictOf(<< <<"text", PyStr(StrNode(node))>>,
              <<"type", PyStr("ExternalLink")>>,
              <<"brackets", PyBool(node.brackets)>>,
              <<"title", IF node.title # None THEN convert_wikicode(node.title) ELSE None>>,
              <<"url", convert_wikicode(node.url)>> >>)

case_Heading(node) ==
    DictOf(<< <<"text", PyStr(StrNode(node))>>,
              <<"type", PyStr("Heading")>>,
              <<"level", PyInt(node.level)>>,
              <<"title", convert_wikicode(node.title)>> >>)

case_HTMLEntity(node) ==
    DictOf(<< <<"text", PyStr(StrNode(node))>>,
              <<"type", PyStr("HTMLEntity")>>,
              <<"hex_char", PyStr(node.hex_char)>>,
              <<"hexadecimal", PyBool(node.hexadecimal)>>,
              <<"named", PyBool(node.named)>>,
              <<"value", PyStr(node.value)>> >>)

case_Tag(node) ==
    DictOf(<< <<"text", PyStr(StrNode(node))>>,
              <<"type", PyStr("Tag")>>,
              <<"attributes", ConvertEach(node.attributes)>>,
              <<"closing_tag", StrIfTruthy(node.closing_tag)>>,
              <<"closing_wiki_markup", StrIfTruthy(node.closing_wiki_markup)>>,
              <<"contents", convert_wikicode(node.contents)>>,
              <<"implicit", PyBool(node.implicit)>>,
              <<"invalid", PyBool(node.invalid)>>,
              <<"padding", PyStr(node.padding)>>,
              <<"self_closing", PyBool(node.self_closing)>>,
              <<"tag", StrIfTruthy(node.tag)>>,
              <<"wiki_markup", StrIfTruthy(node.wiki_markup)>>,
              <<"wiki_style_separator", StrIfTruthy(node.wiki_style_separator)>> >>)

case_Template(node) ==
    DictOf(<< <<"text", PyStr(StrNode(node))>>,
              <<"type", PyStr("Template")>>,
              <<"name", convert_wikicode(node.name)>>,
              <<"params", ConvertEach(node.params)>> >>)

case_Text(node) ==
    DictOf(<< <<"text", PyStr(StrNode(node))>>,
              <<"type", PyStr("Text")>>,
              <<"value", PyStr(node.value)>> >>)

case_Wikilink(node) ==
    DictOf(<< <<"text", PyStr(StrNode(node))>>,
              <<"type", PyStr("Wikilink")>>,
              <<"txt", IF node.text # None /\ Truthy(node.text)
                       THEN convert_wikicode(node.text) ELSE None>>,
              <<"title", convert_wikicode(node.title)>> >>)

\* the default case passing the node on as an untyped record instead of raising
case_default_generic(node) ==
    DictOf(<< <<"text", PyStr(StrNode(node))>>, <<"type", PyStr(node.cls)>> >>)

\* case _: raise ValueError(f"Unsupported node type: {type(node)}")
case_default(node) == Raise("ValueError", "Unsupported node type: " \o node.cls)

convert_node(node) ==
    CASE node.cls = "Attribute" -> case_Attribute(node)
      [] node.cls = "Parameter" -> case_Parameter(node)
      [] node.cls = "Argument" -> case_Argument(node)
      [] node.cls = "Comment" -> case_Comment(node)
      [] node.cls = "ExternalLink" -> case_ExternalLink(node)
      [] node.cls = "Heading" -> case_Heading(node)
      [] node.cls = "HTMLEntity" -> case_HTMLEntity(node)
      [] node.cls = "Tag" -> case_Tag(node)
      [] node.cls = "Template" -> case_Template(node)
      [] node.cls = "Text" -> case_Text(node)
      [] node.cls = "Wikilink" -> case_Wikilink(node)
      [] OTHER -> case_default(node)

\* a list of the records that could be built, the failed ones left out
Built(elems) == LET Ok(v) == ~IsRaise(v) IN PyList(SelectSeq(elems, Ok))

\* nodes built best-effort: a child that fails to serialize is skipped
convert_wikicode_best_effort(code) ==
    DictOf(<< <<"headings", ConvertEach(filter_headings(code))>>,
              <<"templates", ConvertEach(filter_templates(code))>>,
              <<"tags", ConvertEach(filter_tags(code))>>,
              <<"nodes", Built([i \in 1..Len(code.nodes) |-> convert_node(code.nodes[i])])>>,
              <<"text", PyStr(StrWikicode(code))>> >>)

\* nodes taken from the recursive wikitext.filter() instead of wikitext.nodes
convert_wikicode_filter_nodes(code) ==
    DictOf(<< <<"headings", ConvertEach(filter_headings(code))>>,
              <<"templates", ConvertEach(filter_templates(code))>>,
              <<"tags", ConvertEach(filter_tags(code))>>,
              <<"nodes", ConvertEach(DescendAll(code.nodes, 1))>>,
              <<"text", PyStr(StrWikicode(code))>> >>)

\* the filters called with recursive=False: direct children only
convert_wikicode_direct(code) ==
    LET Direct(cls) == LET Match(n) == IsClass(n, cls) IN SelectSeq(code.nodes, Match)
    IN  DictOf(<< <<"headings", ConvertEach(Direct("Heading"))>>,
                  <<"templates", ConvertEach(Direct("Template"))>>,
                  <<"tags", ConvertEach(Direct("Tag"))>>,
                  <<"nodes", ConvertEach(code.nodes)>>,
                  <<"text", PyStr(StrWikicode(code))>> >>)

convert_wikicode(code) ==
    DictOf(<< <<"headings", ConvertEach(filter_headings(code))>>,
              <<"templates", ConvertEach(filter_templates(code))>>,
              <<"tags", ConvertEach(filter_tags(code))>>,
              <<"nodes", ConvertEach(code.nodes)>>,
              <<"text", PyStr(StrWikicode(code))>> >>)

-----------------------------------------------------------------------------
(* json.dumps with its default separators.  The texts of the model hold no *)
(* character that JSON escapes (no double quote, backslash, control or     *)
(* non-ASCII character), so a string is rendered between double quotes.    *)

RECURSIVE Dumps(_), DumpElems(_, _), DumpItems(_, _)

DumpElems(elems, from) ==
    IF from > Len(elems) THEN ""
    ELSE Dumps(elems[from])
            \o (IF from < Len(elems) THEN ", " ELSE "")
            \o DumpElems(elems, from + 1)

DumpItems(items, from) ==
    IF from > Len(items) THEN ""
    ELSE "\"" \o items[from][1] \o "\": " \o Dumps(items[from][2])
            \o (IF from < Len(items) THEN ", " ELSE "")
            \o DumpItems(items, from + 1)

Dumps(v) ==
    CASE v.py = "None" -> "null"
      [] v.py = "bool" -> IF v.b THEN "true" ELSE "false"
      [] v.py = "int" -> ToString(v.i)
      [] v.py = "str" -> "\"" \o v.s \o "\""
      [] v.py = "list" -> "[" \o DumpElems(v.elems, 1) \o "]"
      [] v.py = "dict" -> "{" \o DumpItems(v.items, 1) \o "}"

-----------------------------------------------------------------------------
(* The documents the parser can hand over, up to MaxNodes nodes *)

OneText(s) == Wikicode(<<Text(s)>>)

Empty == Wikicode(<<>>)

\* nodes without sub-trees
Leaves == {Text("a"), Comment("c"), HTMLEntity("amp"), Unknown("Ext1", "?"), Unknown("Ext2", "!")}

\* nodes whose optional sub-tree is unset, or whose sub-trees are fixed
Plain ==
    { Argument(OneText("n"), None),
      ExternalLink(OneText("http://u"), None, FALSE),
      Heading(OneText("h"), 2),
      Tag(OneText("br"), <<Attribute(OneText("k"), None, None)>>, Empty, TRUE),
      Template(OneText("n"), <<>>),
      Wikilink(OneText("t"), None) }

\* the nodes that hold the sub-tree sub in one of their fields
Around(sub) ==
    { Argument(OneText("n"), sub),
      ExternalLink(OneText("http://u"), sub, TRUE),
      Tag(OneText("b"), <<>>, sub, FALSE),
      Tag(OneText("ref"), <<Attribute(OneText("k"), sub, PyStr("'"))>>, Empty, FALSE),
      Template(OneText("n"), <<Parameter(OneText("k"), sub, TRUE)>>),
      Wikilink(OneText("t"), sub) }
    \cup (IF sub = Empty THEN {} ELSE {Heading(sub, 2)})

RECURSIVE NodesOfSize(_), ForestsOfSize(_)

\* the nodes that hold exactly n nodes, themselves included
NodesOfSize(n) ==
    IF n = 1 THEN Leaves \cup Plain \cup Around(Empty)
    ELSE UNION {Around(Wikicode(f)) : f \in ForestsOfSize(n - 1)}

\* the node sequences that hold exactly n nodes
ForestsOfSize(n) ==
    IF n = 0 THEN {<<>>}
    ELSE UNION {{<<a>> \o f : a \in NodesOfSize(k), f \in ForestsOfSize(n - k)} : k \in 1..n}

Documents == {Wikicode(f) : f \in UNION {ForestsOfSize(n) : n \in 0..MaxNodes}}

-----------------------------------------------------------------------------
(* The parse procedure of the XML-RPC server *)

NoResponse == [kind |-> "none"]

\* the dispatcher turns an exception of the procedure into Fault(1, "<type>:<value>")
Fault(raised) ==
    [kind |-> "fault", faultCode |-> 1,
     faultString |-> "<class '" \o raised.exc \o "'>:" \o raised.arg]

Result(value) == [kind |-> "result", value |-> value]

\* the server waits for a request: no tree, no output, nothing to send
Init ==
    /\ pc = "idle"
    /\ wikitext = None
    /\ output = None
    /\ response = NoResponse

\* t1 = time.time(); wikitext = mwparserfromhell.parse(text)
\* the parser returns a tree, or raises ParserError on text it rejects
parser_parse ==
    /\ pc = "idle"
    /\ \/ \E parsed \in Documents :
             /\ wikitext' = parsed
             /\ response' = NoResponse
             /\ pc' = "parsed"
       \/ /\ wikitext' = None
          /\ response' = Fault(Raise("ParserError", "rejected"))
          /\ pc' = "returned"
    /\ output' = None

\* a serializer that takes the nodes out of the tree as it walks it
parser_convert_consuming ==
    /\ pc = "parsed"
    /\ LET out == convert_wikicode(wikitext)
       IN  IF IsRaise(out)
           THEN /\ output' = None
                /\ response' = Fault(out)
                /\ pc' = "returned"
           ELSE /\ output' = out
                /\ response' = response
                /\ pc' = "converted"
    /\ wikitext' = Empty

\* output = convert_wikicode(wikitext)
parser_convert ==
    /\ pc = "parsed"
    /\ LET out == convert_wikicode(wikitext)
       IN  IF IsRaise(out)
           THEN /\ output' = None
                /\ response' = Fault(out)
                /\ pc' = "returned"
           ELSE /\ output' = out
                /\ response' = response
                /\ pc' = "converted"
    /\ wikitext' = wikitext

\* the procedure returning the structure itself, not its JSON text
parser_return_structured ==
    /\ pc = "converted"
    /\ \E elapsed \in 0..MaxElapsed :
          response' = Result(PyDict(<< <<"parsed", output>>,
                                       <<"elapsed", PyFloat(elapsed)>> >>))
    /\ pc' = "returned"
    /\ UNCHANGED <<wikitext, output>>

\* t2 = time.time(); return {"parsed": json.dumps(output), "elapsed": t2 - t1}
parser_return ==
    /\ pc = "converted"
    /\ \E elapsed \in 0..MaxElapsed :
          response' = Result(PyDict(<< <<"parsed", PyStr(Dumps(output))>>,
                                       <<"elapsed", PyFloat(elapsed)>> >>))
    /\ pc' = "returned"
    /\ UNCHANGED <<wikitext, output>>

\* the response is sent, the request's locals are dropped, and the server
\* waits for the next request; nothing of the request is kept
serve_forever ==
    /\ pc = "returned"
    /\ pc' = "idle"
    /\ wikitext' = None
    /\ output' = None
    /\ response' = NoResponse

Next == parser_parse \/ parser_convert \/ parser_return \/ serve_forever

Spec == Init /\ [][Next]_vars

-----------------------------------------------------------------------------
(* Vocabulary of the properties *)

\* the closed set of node variants
Variants ==
    {"Attribute", "Parameter", "Argument", "Comment", "ExternalLink", "Heading",
     "HTMLEntity", "Tag", "Template", "Text", "Wikilink"}

\* the sub-tree fields of a node that the data model gives as sub-trees, as
\* <<key of the record, sub-tree or None>>
SubTreeFields(node) ==
    CASE node.cls = "Attribute" -> << <<"value", node.value>> >>
      [] node.cls = "Argument" -> << <<"name", node.name>>, <<"default", node.default>> >>
      [] node.cls = "ExternalLink" -> << <<"title", node.title>>, <<"url", node.url>> >>
      [] node.cls = "Heading" -> << <<"title", node.title>> >>
      [] node.cls = "Tag" -> << <<"contents", node.contents>> >>
      [] node.cls = "Template" -> << <<"name", node.name>> >>
      [] node.cls = "Wikilink" -> << <<"txt", node.text>>, <<"title", node.title>> >>
      [] OTHER -> <<>>

\* the optional ones among them
OptionalFields(node) ==
    CASE node.cls = "Attribute" -> << <<"value", node.value>> >>
      [] node.cls = "Argument" -> << <<"default", node.default>> >>
      [] node.cls = "ExternalLink" -> << <<"title", node.title>> >>
      [] node.cls = "Wikilink" -> << <<"txt", node.text>> >>
      [] OTHER -> <<>>

\* the node-sequence fields of a node, as <<key of the record, nodes>>
NodeListFields(node) ==
    CASE node.cls = "Tag" -> << <<"attributes", node.attributes>> >>
      [] node.cls = "Template" -> << <<"params", node.params>> >>
      [] OTHER -> <<>>

RECURSIVE NodesUnder(_), NodesIn(_, _), NodesInTrees(_, _), NodesInLists(_, _)

\* a node and every node below it through sub-tree and node-sequence fields,
\* as a sequence in document order
NodesUnder(node) ==
    <<node>> \o NodesInTrees(SubTreeFields(node), 1) \o NodesInLists(NodeListFields(node), 1)

NodesInTrees(fields, from) ==
    IF from > Len(fields) THEN <<>>
    ELSE (IF fields[from][2] # None THEN NodesIn(fields[from][2].nodes, 1) ELSE <<>>)
            \o NodesInTrees(fields, from + 1)

NodesInLists(fields, from) ==
    IF from > Len(fields) THEN <<>>
    ELSE NodesIn(fields[from][2], 1) \o NodesInLists(fields, from + 1)

NodesIn(nodes, from) ==
    IF from > Len(nodes) THEN <<>> ELSE NodesUnder(nodes[from]) \o NodesIn(nodes, from + 1)

\* the nodes of the request's tree, at every depth
TreeNodes == IF wikitext = None THEN <<>> ELSE NodesIn(wikitext.nodes, 1)

RECURSIVE NodesBelow(_, _)

\* the nodes below the nodes of a sequence
NodesBelow(nodes, from) ==
    IF from > Len(nodes) THEN <<>>
    ELSE Tail(NodesUnder(nodes[from])) \o NodesBelow(nodes, from + 1)

\* the nodes of the request's tree below the top level
NestedNodes == IF wikitext = None THEN <<>> ELSE NodesBelow(wikitext.nodes, 1)

IsKnown(node) == node.cls \in Variants

IsUnknown(node) == node.cls \notin Variants

RECURSIVE DictsIn(_), DictsInElems(_, _), DictsInItems(_, _)

\* every dict of a value, at every depth, itself included
DictsIn(v) ==
    CASE v.py = "dict" -> <<v>> \o DictsInItems(v.items, 1)
      [] v.py = "list" -> DictsInElems(v.elems, 1)
      [] OTHER -> <<>>

DictsInElems(elems, from) ==
    IF from > Len(elems) THEN <<>> ELSE DictsIn(elems[from]) \o DictsInElems(elems, from + 1)

DictsInItems(items, from) ==
    IF from > Len(items) THEN <<>> ELSE DictsIn(items[from][2]) \o DictsInItems(items, from + 1)

IsNodeRecord(d) == "type" \in Keys(d)

IsTreeRecord(d) == "nodes" \in Keys(d)

TreeKeys == {"headings", "templates", "tags", "nodes", "text"}

\* the serializer has produced the output of the request
Converted == pc = "converted"

\* the procedure has ended, with a result or a fault
Returned == pc = "returned"

-----------------------------------------------------------------------------
(* C1: the key set of every node record *)

\* the keys the data model documents for a variant, with type and text
DocumentedKeys(variant) ==
    {"type", "text"} \cup
    CASE variant = "Attribute" ->
            {"name", "value", "pad_before_eq", "pad_after_eq", "pad_first", "quotes"}
      [] variant = "Parameter" -> {"name", "value", "showkey"}
      [] variant = "Argument" -> {"name", "default"}
      [] variant = "Comment" -> {"contents"}
      [] variant = "ExternalLink" -> {"url", "title", "brackets"}
      [] variant = "Heading" -> {"level", "title"}
      [] variant = "HTMLEntity" -> {"value", "named", "hexadecimal", "hex_char"}
      [] variant = "Tag" ->
            {"tag", "attributes", "contents", "closing_tag", "self_closing", "implicit",
             "invalid", "padding", "wiki_markup", "closing_wiki_markup",
             "wiki_style_separator"}
      [] variant = "Template" -> {"name", "params"}
      [] variant = "Text" -> {"value"}
      [] variant = "Wikilink" -> {"title", "txt"}
      [] OTHER -> {}

\* C1: every node record of the output has exactly the keys type, text and
\* the attributes documented for its variant (an Attribute record its name too)
C1_ExactlyDocumentedKeys ==
    Converted =>
        LET ds == DictsIn(output)
        IN  \A i \in 1..Len(ds) :
                IsNodeRecord(ds[i]) =>
                    /\ Get(ds[i], "type").s \in Variants
                    /\ Keys(ds[i]) = DocumentedKeys(Get(ds[i], "type").s)

-----------------------------------------------------------------------------
(* C2: a node outside the closed set *)

RECURSIVE NodesUnderEach(_, _)

NodesUnderEach(nodes, from) ==
    IF from > Len(nodes) THEN <<>>
    ELSE NodesUnder(nodes[from]) \o NodesUnderEach(nodes, from + 1)

IsFiltered(node) == node.cls \in {"Heading", "Template", "Tag"}

\* the nodes convert_node is applied to while the request's tree is serialized:
\* the nodes of the tree through sub-tree and node-sequence fields, and the
\* headings, templates and tags the filters find anywhere, with what is below them
MetNodes ==
    IF wikitext = None THEN <<>>
    ELSE TreeNodes \o NodesUnderEach(SelectSeq(DescendAll(wikitext.nodes, 1), IsFiltered), 1)

UnknownNodes == SelectSeq(MetNodes, IsUnknown)

\* C2: when convert_node meets, at any depth of the tree, a node of no known
\* variant, the request ends in a fault that names the unhandled kind and
\* nothing is serialized; and no record of an output has a type outside the
\* closed set
C2_UnknownVariantFaults ==
    /\ pc \in {"converted", "returned"} =>
            LET unknown == UnknownNodes
            IN  unknown # <<>> =>
                    /\ pc = "returned"
                    /\ response.kind = "fault"
                    /\ output = None
                    /\ \E i \in 1..Len(unknown) :
                          response.faultString
                              = "<class 'ValueError'>:Unsupported node type: " \o unknown[i].cls
    /\ Converted =>
            LET ds == DictsIn(output)
            IN  \A i \in 1..Len(ds) :
                    IsNodeRecord(ds[i]) => Get(ds[i], "type").s \in Variants

\* an unknown node below the top level of a tree of known nodes has faulted the request
C2_Witness ==
    /\ Returned
    /\ response.kind = "fault"
    /\ wikitext # None
    /\ \A i \in 1..Len(wikitext.nodes) : wikitext.nodes[i].cls \in Variants
    /\ SelectSeq(NestedNodes, IsUnknown) # <<>>

-----------------------------------------------------------------------------
(* C3: a result for the whole tree, or a fault *)

RECURSIVE CompleteTree(_, _), CompleteNode(_, _)

\* rec is a record for the node, with a record for everything below it
CompleteNode(rec, node) ==
    /\ rec.py = "dict"
    /\ node.cls \in Variants
    /\ {"type", "text"} \subseteq Keys(rec)
    /\ Get(rec, "type") = PyStr(node.cls)
    /\ Get(rec, "text") = PyStr(StrNode(node))
    /\ \A i \in 1..Len(SubTreeFields(node)) :
          LET key == SubTreeFields(node)[i][1]
              sub == SubTreeFields(node)[i][2]
          IN  /\ key \in Keys(rec)
              /\ \/ Get(rec, key) = None
                 \/ sub # None /\ CompleteTree(Get(rec, key), sub)
    /\ \A i \in 1..Len(NodeListFields(node)) :
          LET key == NodeListFields(node)[i][1]
              nodes == NodeListFields(node)[i][2]
          IN  /\ key \in Keys(rec)
              /\ Get(rec, key).py = "list"
              /\ Len(Get(rec, key).elems) = Len(nodes)
              /\ \A j \in 1..Len(nodes) : CompleteNode(Get(rec, key).elems[j], nodes[j])

\* rec is a record for the tree, with a record for each of its nodes
CompleteTree(rec, code) ==
    /\ rec.py = "dict"
    /\ Keys(rec) = TreeKeys
    /\ Get(rec, "text") = PyStr(StrWikicode(code))
    /\ \A key \in {"headings", "templates", "tags", "nodes"} : Get(rec, key).py = "list"
    /\ Len(Get(rec, "nodes").elems) = Len(code.nodes)
    /\ \A i \in 1..Len(code.nodes) : CompleteNode(Get(rec, "nodes").elems[i], code.nodes[i])

-----------------------------------------------------------------------------
(* C4: nodes follows the children of the tree *)

\* C4: nodes has one entry per direct child of the tree, and entry i is the
\* record of the i-th child
C4_NodesInChildOrder ==
    Converted =>
        LET recs == Get(output, "nodes").elems
        IN  /\ Len(recs) = Len(wikitext.nodes)
            /\ \A i \in 1..Len(recs) : recs[i] = convert_node(wikitext.nodes[i])

\* a tree of two different children has been serialized
C4_Witness ==
    /\ Converted
    /\ Len(wikitext.nodes) = 2
    /\ StrNode(wikitext.nodes[1]) # StrNode(wikitext.nodes[2])

-----------------------------------------------------------------------------
(* C5: headings, templates and tags search the whole tree *)

FilterKeys == {<<"headings", "Heading">>, <<"templates", "Template">>, <<"tags", "Tag">>}

\* the nodes of a class in a full traversal of the tree, in document order
InDocumentOrder(code, cls) ==
    LET Match(n) == n.cls = cls IN SelectSeq(DescendAll(code.nodes, 1), Match)

\* C5: headings, templates and tags hold the records of every Heading,
\* Template and Tag of the tree at any depth, in the order of a full traversal
C5_FiltersCoverAllDepths ==
    Converted =>
        \A fk \in FilterKeys :
            LET recs == Get(output, fk[1]).elems
                found == InDocumentOrder(wikitext, fk[2])
            IN  /\ Len(recs) = Len(found)
                /\ \A i \in 1..Len(found) : recs[i] = convert_node(found[i])
                /\ LET all == TreeNodes
                   IN  \A k \in 1..Len(all) :
                          all[k].cls = fk[2] =>
                              \E i \in 1..Len(recs) : recs[i] = convert_node(all[k])

\* a tree with a Template in the default value of an Argument has been serialized
C5_Witness ==
    /\ Converted
    /\ \E i \in 1..Len(wikitext.nodes) :
          /\ wikitext.nodes[i].cls = "Argument"
          /\ wikitext.nodes[i].default # None
          /\ \E j \in 1..Len(wikitext.nodes[i].default.nodes) :
                wikitext.nodes[i].default.nodes[j].cls = "Template"

-----------------------------------------------------------------------------
(* C6: the texts of the children give the text of the tree *)

RECURSIVE JoinTexts(_, _)

\* the text fields of the records, concatenated in order
JoinTexts(recs, from) ==
    IF from > Len(recs) THEN "" ELSE Get(recs[from], "text").s \o JoinTexts(recs, from + 1)

\* C6: in every tree record of the output, at any depth, the text fields of
\* the entries of nodes, concatenated in order, give the text of the record
C6_ChildTextsGiveTreeText ==
    Converted =>
        LET ds == DictsIn(output)
        IN  \A i \in 1..Len(ds) :
                IsTreeRecord(ds[i]) =>
                    Get(ds[i], "text").s = JoinTexts(Get(ds[i], "nodes").elems, 1)

\* a tree of two children, one of them holding a sub-tree with a node, has been serialized
C6_Witness ==
    /\ Converted
    /\ Len(wikitext.nodes) = 2
    /\ NestedNodes # <<>>
    /\ LET ds == DictsIn(output)
       IN  \E i \in 2..Len(ds) :
              IsTreeRecord(ds[i]) /\ Len(Get(ds[i], "nodes").elems) > 0

-----------------------------------------------------------------------------
(* C7: the serializer leaves the tree as it is *)

-----------------------------------------------------------------------------
(* C8: trees nested beyond a depth bound *)

\* the depth bound the requirement speaks of
DepthBound == 2

Max(a, b) == IF a > b THEN a ELSE b

RECURSIVE Depth(_), DepthOfNodes(_, _), DepthOfTrees(_, _)

\* the number of tree levels of a tree: 0 when empty, 1 for plain text
Depth(code) == IF code.nodes = <<>> THEN 0 ELSE 1 + DepthOfNodes(code.nodes, 1)

DepthOfNodes(nodes, from) ==
    IF from > Len(nodes) THEN 0
    ELSE Max(DepthOfTrees(Children(nodes[from]), 1), DepthOfNodes(nodes, from + 1))

DepthOfTrees(codes, from) ==
    IF from > Len(codes) THEN 0
    ELSE Max(Depth(codes[from]), DepthOfTrees(codes, from + 1))

\* C8: a request whose tree is nested more deeply than the depth bound ends
\* in a fault that is not the parser's
C8_DeepTreeFaults ==
    (pc \in {"converted", "returned"} /\ wikitext # None /\ Depth(wikitext) > DepthBound) =>
        /\ pc = "returned"
        /\ response.kind = "fault"
        /\ response # Fault(Raise("ParserError", "rejected"))

-----------------------------------------------------------------------------
(* C9: the record the procedure returns *)

-----------------------------------------------------------------------------
(* C10: optional sub-trees *)

\* C10: the record of a node holds null for an optional sub-tree exactly when
\* the sub-tree is unset on the node, and otherwise the record of the sub-tree
C10_NullIffUnset ==
    Converted =>
        LET all == TreeNodes
        IN  \A k \in 1..Len(all) :
                \A i \in 1..Len(OptionalFields(all[k])) :
                    LET key == OptionalFields(all[k])[i][1]
                        sub == OptionalFields(all[k])[i][2]
                        field == Get(convert_node(all[k]), key)
                    IN  /\ field = None <=> sub = None
                        /\ sub # None => field = convert_wikicode(sub)

====
